---- MODULE Spec2Model ----
(***************************************************************************)
(* Access-gated audio relay (server/server.js, server/config.js).          *)
(*                                                                         *)
(* Strings that the code inspects character by character (addresses and    *)
(* request paths) are kept in the state as TLA+ strings; Chars gives the   *)
(* characters of each such string, and replace / split / startsWith /      *)
(* parseInt work on those character sequences as the JavaScript code does. *)
(***************************************************************************)
EXTENDS Integers, Sequences, FiniteSets, TLC

VARIABLES
    interfaces,   \* os.networkInterfaces() at startup, flattened in iteration order
    SERVER_IP,    \* const SERVER_IP = getServerIP()
    mode,         \* config.deployment.mode
    now,          \* Date.now(), in milliseconds since startup
    sessions,     \* the session store: session id -> [data, expires], and as
                  \* history issuedAt, the time the id was first saved
    nextSid,      \* the next session id the store generates
    reqs,         \* requests waiting for the store's deferred get callback (FIFO)
    serving,      \* responses passed to an asynchronous route, res.end still to come
    nextUp,       \* the number of the next upgrade attempt
    refused,      \* upgrade attempts answered 401 and destroyed
    conns,        \* Relay Connections: upgrade attempt -> [state, sid, ip, rx],
                  \* state "Relaying" | "Closed"
    sink,         \* datagrams handed to udp.send, in order
    last,         \* the response a handler has just produced, until it is written out
    alive,        \* FALSE once an uncaught exception has ended the process
    revoked,      \* history: the session ids whose POST /api/logout has been answered
    limit,        \* the bounds of the run; never changes
    boot,         \* the start of the process: the HTTPS_ENABLED of its environment,
                  \* whether certs/cert.pem and certs/key.pem exist, the server it
                  \* listens with ("starting" | "https" | "http" | "exited") and
                  \* exit, <<status>> once process.exit has been called
    client        \* one page of the browser client: its globals ws, mediaStream,
                  \* audioContext and isAuthenticated, its two buttons, and the
                  \* WebSockets, media streams, audio contexts and startAudio
                  \* calls it has created. A socket is "CONNECTING", "OPEN",
                  \* "CLOSING" (close() called), "FAILED" (its close event still
                  \* to come) or "CLOSED" (onclose has run)

config == <<interfaces, SERVER_IP, mode, limit, boot, client>>
relay == <<nextUp, refused, conns, sink>>
vars == <<interfaces, SERVER_IP, mode, now, sessions, nextSid, reqs, serving,
          nextUp, refused, conns, sink, last, alive, revoked, limit, boot, client>>

----------------------------------------------------------------------------
(* JavaScript string primitives on character sequences *)

\* The characters of every string literal the model uses.
Chars(s) ==
    CASE s = "192.168.8.101" -> <<"1","9","2",".","1","6","8",".","8",".","1","0","1">>
      [] s = "192.168.8.102" -> <<"1","9","2",".","1","6","8",".","8",".","1","0","2">>
      [] s = "::ffff:192.168.8.102" ->
            <<":",":","f","f","f","f",":","1","9","2",".","1","6","8",".","8",".","1","0","2">>
      [] s = "192.168.9.50" -> <<"1","9","2",".","1","6","8",".","9",".","5","0">>
      [] s = "192.168.80.1" -> <<"1","9","2",".","1","6","8",".","8","0",".","1">>
      [] s = "103.45.67.89" -> <<"1","0","3",".","4","5",".","6","7",".","8","9">>
      [] s = "10.0.0.7" -> <<"1","0",".","0",".","0",".","7">>
      [] s = "10.0.0.9" -> <<"1","0",".","0",".","0",".","9">>
      [] s = "172.20.1.4" -> <<"1","7","2",".","2","0",".","1",".","4">>
      [] s = "172.20.1.77" -> <<"1","7","2",".","2","0",".","1",".","7","7">>
      [] s = "172.32.0.1" -> <<"1","7","2",".","3","2",".","0",".","1">>
      [] s = "8.8.8.8" -> <<"8",".","8",".","8",".","8">>
      [] s = "127.0.0.1" -> <<"1","2","7",".","0",".","0",".","1">>
      [] s = "::ffff:127.0.0.1" ->
            <<":",":","f","f","f","f",":","1","2","7",".","0",".","0",".","1">>
      [] s = "::1" -> <<":",":","1">>
      [] s = "localhost" -> <<"l","o","c","a","l","h","o","s","t">>
      [] s = "0.0.0.0" -> <<"0",".","0",".","0",".","0">>
      [] s = "0.0.0.5" -> <<"0",".","0",".","0",".","5">>
      [] s = "fe80::1" -> <<"f","e","8","0",":",":","1">>
      [] s = "192.168.8" -> <<"1","9","2",".","1","6","8",".","8">>
      [] s = "::ffff:" -> <<":",":","f","f","f","f",":">>
      [] s = "/api/login" ->
            <<"/","a","p","i","/","l","o","g","i","n">>
      [] s = "/api/logout" ->
            <<"/","a","p","i","/","l","o","g","o","u","t">>
      [] s = "/api/auth-status" ->
            <<"/","a","p","i","/","a","u","t","h","-","s","t","a","t","u","s">>
      [] s = "/api/admin/login" ->
            <<"/","a","p","i","/","a","d","m","i","n","/","l","o","g","i","n">>
      [] s = "/api/admin/qr-code" ->
            <<"/","a","p","i","/","a","d","m","i","n","/","q","r","-","c","o","d","e">>
      [] s = "/api/admin" ->
            <<"/","a","p","i","/","a","d","m","i","n">>
      [] s = "/api/administrator" ->
            <<"/","a","p","i","/","a","d","m","i","n","i","s","t","r","a","t","o","r">>
      [] s = "/admin.html" ->
            <<"/","a","d","m","i","n",".","h","t","m","l">>
      [] s = "/health" ->
            <<"/","h","e","a","l","t","h">>
      [] s = "/hotspot-detect.html" ->
            <<"/","h","o","t","s","p","o","t","-","d","e","t","e","c","t",".","h","t","m","l">>
      [] s = "/generate_204" ->
            <<"/","g","e","n","e","r","a","t","e","_","2","0","4">>
      [] s = "/gen_204" ->
            <<"/","g","e","n","_","2","0","4">>
      [] s = "/ncsi.txt" ->
            <<"/","n","c","s","i",".","t","x","t">>
      [] s = "/connecttest.txt" ->
            <<"/","c","o","n","n","e","c","t","t","e","s","t",".","t","x","t">>
      [] s = "/redirect" ->
            <<"/","r","e","d","i","r","e","c","t">>
      [] s = "/" ->
            <<"/">>
      [] s = "/index.html" ->
            <<"/","i","n","d","e","x",".","h","t","m","l">>
      [] s = "" -> << >>

\* String.prototype.indexOf: the first position of pat in s, 0 when absent.
IndexOf(s, pat) ==
    LET hits == { i \in 1..(Len(s) - Len(pat) + 1) :
                    SubSeq(s, i, i + Len(pat) - 1) = pat }
    IN  IF hits = {} THEN 0 ELSE CHOOSE i \in hits : \A j \in hits : i <= j

\* String.prototype.replace(pat, rep) with a string pattern: first occurrence only.
Replace(s, pat, rep) ==
    LET i == IndexOf(s, pat)
    IN  IF i = 0 THEN s
        ELSE SubSeq(s, 1, i - 1) \o rep \o SubSeq(s, i + Len(pat), Len(s))

\* String.prototype.split(sep) with a one-character separator.
RECURSIVE Split(_, _)
Split(s, sep) ==
    LET i == IndexOf(s, <<sep>>)
    IN  IF i = 0 THEN <<s>>
        ELSE <<SubSeq(s, 1, i - 1)>> \o Split(SubSeq(s, i + 1, Len(s)), sep)

\* String.prototype.startsWith
StartsWith(s, pat) ==
    Len(s) >= Len(pat) /\ SubSeq(s, 1, Len(pat)) = pat

Digits == {"0","1","2","3","4","5","6","7","8","9"}

DigitVal(c) ==
    CASE c = "0" -> 0 [] c = "1" -> 1 [] c = "2" -> 2 [] c = "3" -> 3
      [] c = "4" -> 4 [] c = "5" -> 5 [] c = "6" -> 6 [] c = "7" -> 7
      [] c = "8" -> 8 [] c = "9" -> 9

NaN == -1

\* parseInt of an unsigned decimal: the leading digits, NaN when there are none.
RECURSIVE ParseDigits(_, _)
ParseDigits(s, acc) ==
    IF s = << >> \/ Head(s) \notin Digits THEN acc
    ELSE ParseDigits(Tail(s), acc * 10 + DigitVal(Head(s)))

parseInt(s) ==
    IF s = << >> \/ Head(s) \notin Digits THEN NaN ELSE ParseDigits(s, 0)

----------------------------------------------------------------------------
(* Network detection *)

\* One entry of os.networkInterfaces(), flattened in iteration order.
Iface(family, internal, address) ==
    [family |-> family, internal |-> internal, address |-> address]

IsPrivateIP(ip) ==
    LET parts == Split(Chars(ip), ".")
        firstOctet == parseInt(parts[1])
        secondOctet == IF Len(parts) >= 2 THEN parseInt(parts[2]) ELSE NaN
    IN  \/ firstOctet = 192 /\ secondOctet = 168
        \/ firstOctet = 10
        \/ firstOctet = 172 /\ secondOctet >= 16 /\ secondOctet <= 31

RECURSIVE getServerIP(_)
getServerIP(ifs) ==
    IF ifs = << >> THEN "0.0.0.0"
    ELSE LET iface == Head(ifs)
         IN  IF iface.family = "IPv4" /\ ~iface.internal /\ IsPrivateIP(iface.address)
             THEN iface.address
             ELSE getServerIP(Tail(ifs))

----------------------------------------------------------------------------
(* Network validation *)

Undefined == "undefined"

\* Mutant: the subnet test compares two components instead of three.
isOnCorrectNetwork_twoOctets(clientIP) ==
    IF mode = "public" THEN "allow"
    ELSE IF clientIP = Undefined THEN "throw"
    ELSE LET ip == Replace(Chars(clientIP), Chars("::ffff:"), << >>)
             clientParts == Split(ip, ".")
             serverParts == Split(Chars(SERVER_IP), ".")
         IN  IF ip = Chars("127.0.0.1") \/ ip = Chars("::1") \/ ip = Chars("localhost")
             THEN "allow"
             ELSE IF /\ Len(clientParts) = 4 /\ Len(serverParts) = 4
                     /\ clientParts[1] = serverParts[1]
                     /\ clientParts[2] = serverParts[2]
                  THEN "allow"
                  ELSE "deny"

\* Mutant: the IPv4-mapped prefix is not removed.
isOnCorrectNetwork_noStrip(clientIP) ==
    IF mode = "public" THEN "allow"
    ELSE IF clientIP = Undefined THEN "throw"
    ELSE LET ip == Chars(clientIP)
             clientParts == Split(ip, ".")
             serverParts == Split(Chars(SERVER_IP), ".")
         IN  IF ip = Chars("127.0.0.1") \/ ip = Chars("::1") \/ ip = Chars("localhost")
             THEN "allow"
             ELSE IF /\ Len(clientParts) = 4 /\ Len(serverParts) = 4
                     /\ clientParts[1] = serverParts[1]
                     /\ clientParts[2] = serverParts[2]
                     /\ clientParts[3] = serverParts[3]
                  THEN "allow"
                  ELSE "deny"

\* Mutant: the deployment mode is not consulted.
isOnCorrectNetwork_noPublic(clientIP) ==
    IF clientIP = Undefined THEN "throw"
    ELSE LET ip == Replace(Chars(clientIP), Chars("::ffff:"), << >>)
             clientParts == Split(ip, ".")
             serverParts == Split(Chars(SERVER_IP), ".")
         IN  IF ip = Chars("127.0.0.1") \/ ip = Chars("::1") \/ ip = Chars("localhost")
             THEN "allow"
             ELSE IF /\ Len(clientParts) = 4 /\ Len(serverParts) = 4
                     /\ clientParts[1] = serverParts[1]
                     /\ clientParts[2] = serverParts[2]
                     /\ clientParts[3] = serverParts[3]
                  THEN "allow"
                  ELSE "deny"

\* isOnCorrectNetwork(req) for a request whose req.ip || req.connection.remoteAddress
\* is clientIP: "allow" (true), "deny" (false), or "throw" (the TypeError of
\* clientIP.replace on an undefined address, e.g. of a socket already destroyed).
isOnCorrectNetwork(clientIP) ==
    IF mode = "public" THEN "allow"
    ELSE IF clientIP = Undefined THEN "throw"
    ELSE LET ip == Replace(Chars(clientIP), Chars("::ffff:"), << >>)
             clientParts == Split(ip, ".")
             serverParts == Split(Chars(SERVER_IP), ".")
             sameSubnet == /\ clientParts[1] = serverParts[1]
                           /\ clientParts[2] = serverParts[2]
                           /\ clientParts[3] = serverParts[3]
         IN  IF ip = Chars("127.0.0.1") \/ ip = Chars("::1") \/ ip = Chars("localhost")
             THEN "allow"
             ELSE IF Len(clientParts) = 4 /\ Len(serverParts) = 4 /\ sameSubnet
                  THEN "allow"
                  ELSE "deny"

----------------------------------------------------------------------------
(* Configuration (server/config.js) *)

cookieMaxAge == 24 * 60 * 60 * 1000
adminPassword == "admin123"
ESP32_IP == "192.168.1.25"
UDP_PORT == 5005
PORT == 10000
HTTPS_PORT == 8443

\* config.server.https.enabled: process.env.HTTPS_ENABLED === 'true' || true
httpsEnabled(HTTPS_ENABLED) == (HTTPS_ENABLED = "true") \/ TRUE

\* A process that has started to serve, as the specifications below find it:
\* no HTTPS_ENABLED in the environment, the certificate files in place.
Started == [HTTPS_ENABLED |-> "unset", certs |-> TRUE, server |-> "https", exit |-> << >>]

(* Bounds of the model *)
MaxTicks == 2
MaxSid == 1
MaxInflight == 1
MaxUpgrades == 1
MaxDatagrams == 1

\* The clock advances in steps of half a session lifetime.
TickStep == cookieMaxAge \div 2

----------------------------------------------------------------------------
(* Sessions (express-session with its default MemoryStore) *)

\* The data of a session just generated: no field set.
EmptyData == [authenticated |-> FALSE, connectedAt |-> -1, adminAuthenticated |-> FALSE]

NoCookie == 0
Forged == -1

\* MemoryStore getSession: an expired entry is deleted on access.
Evict(st, sid) ==
    IF sid \in DOMAIN st /\ st[sid].expires <= now
    THEN [s \in DOMAIN st \ {sid} |-> st[s]]
    ELSE st

Remove(st, sid) == [s \in DOMAIN st \ {sid} |-> st[s]]

Put(st, sid, rec) == [s \in DOMAIN st \cup {sid} |-> IF s = sid THEN rec ELSE st[s]]

\* What the presented cookie is to the store at the moment of the lookup.
TokenState(cookie) ==
    IF cookie = NoCookie THEN "none"
    ELSE IF cookie = Forged THEN "forged"
    ELSE IF cookie \notin DOMAIN sessions THEN "unknown"
    ELSE IF sessions[cookie].expires <= now THEN "expired"
    ELSE "valid"

\* Mutant: the store hands out a session without looking at its expiry.
sessionMiddleware_noExpiry(kind, method, path, ip, cookie, password) ==
    LET hit == cookie \in DOMAIN sessions
        data == IF hit THEN sessions[cookie].data ELSE EmptyData
    IN  [kind |-> kind, method |-> method, path |-> path, ip |-> ip,
         cookie |-> cookie, token |-> TokenState(cookie), password |-> password,
         up |-> IF kind = "upgrade" THEN nextUp ELSE 0,
         fresh |-> ~hit, sid |-> IF hit THEN cookie ELSE 0,
         loaded |-> data, data |-> data, status |-> 0, gate |-> "none"]

\* sessionMiddleware: the request as it leaves the session middleware, with
\* req.session either inflated from the store or freshly generated.
sessionMiddleware(kind, method, path, ip, cookie, password) ==
    LET hit == cookie \in DOMAIN sessions /\ sessions[cookie].expires > now
        data == IF hit THEN sessions[cookie].data ELSE EmptyData
    IN  [kind |-> kind, method |-> method, path |-> path, ip |-> ip,
         cookie |-> cookie, token |-> TokenState(cookie), password |-> password,
         up |-> IF kind = "upgrade" THEN nextUp ELSE 0,
         fresh |-> ~hit, sid |-> IF hit THEN cookie ELSE 0,
         loaded |-> data, data |-> data, status |-> 0, gate |-> "none"]

\* Mutant: a saved session gets no lifetime.
resEnd_noMaxAge(st, r, destroyed) ==
    LET rec == [data |-> r.data, expires |-> now,
                issuedAt |-> IF ~r.fresh /\ r.sid \in DOMAIN st
                             THEN st[r.sid].issuedAt ELSE now]
        st2 == Evict(st, r.sid)
    IN  IF destroyed
        THEN [sessions |-> st, nextSid |-> nextSid, setCookie |-> 0]
        ELSE IF r.fresh
        THEN IF r.data # EmptyData
             THEN [sessions |-> Put(st, nextSid, rec), nextSid |-> nextSid + 1,
                   setCookie |-> nextSid]
             ELSE [sessions |-> st, nextSid |-> nextSid, setCookie |-> 0]
        ELSE IF r.data # r.loaded
        THEN [sessions |-> Put(st, r.sid, rec), nextSid |-> nextSid, setCookie |-> r.sid]
        ELSE [sessions |-> IF r.sid \in DOMAIN st2
                           THEN [st2 EXCEPT ![r.sid].expires = now + cookieMaxAge]
                           ELSE st2,
              nextSid |-> nextSid, setCookie |-> 0]

\* The wrapped res.end of express-session: touch, then save a modified session
\* (a new one under a new id, with Set-Cookie), else touch the stored one.
resEnd(st, r, destroyed) ==
    LET rec == [data |-> r.data, expires |-> now + cookieMaxAge,
                issuedAt |-> IF ~r.fresh /\ r.sid \in DOMAIN st
                             THEN st[r.sid].issuedAt ELSE now]
        st2 == Evict(st, r.sid)
    IN  IF destroyed
        THEN [sessions |-> st, nextSid |-> nextSid, setCookie |-> 0]
        ELSE IF r.fresh
        THEN IF r.data # EmptyData
             THEN [sessions |-> Put(st, nextSid, rec), nextSid |-> nextSid + 1,
                   setCookie |-> nextSid]
             ELSE [sessions |-> st, nextSid |-> nextSid, setCookie |-> 0]
        ELSE IF r.data # r.loaded
        THEN [sessions |-> Put(st, r.sid, rec), nextSid |-> nextSid, setCookie |-> r.sid]
        ELSE [sessions |-> IF r.sid \in DOMAIN st2
                           THEN [st2 EXCEPT ![r.sid].expires = now + cookieMaxAge]
                           ELSE st2,
              nextSid |-> nextSid, setCookie |-> 0]

----------------------------------------------------------------------------
(* Routes, in registration order *)

Out(status, data, route, gate, destroyed, deferred) ==
    [status |-> status, data |-> data, route |-> route, gate |-> gate,
     destroyed |-> destroyed, deferred |-> deferred]

ProbePaths == {"/hotspot-detect.html", "/generate_204", "/gen_204",
               "/ncsi.txt", "/connecttest.txt"}

\* The Host header of a request: the name the client asked for. A device that
\* probes for a captive portal asks for the probe host of its vendor.
Host == "connectivitycheck.gstatic.com"

\* A URL as <<protocol, host, port>>, or <<protocol, host>> with the port in
\* the host. req.protocol is that of the listening server.
getServerUrl ==
    IF SERVER_IP # "0.0.0.0"
    THEN IF httpsEnabled(boot.HTTPS_ENABLED)
         THEN <<"https", SERVER_IP, HTTPS_PORT>>
         ELSE <<"http", SERVER_IP, PORT>>
    ELSE <<boot.server, Host>>

\* express.static and the app.get('*') fallback: files are sent asynchronously.
website(r, data, gate) ==
    IF r.method = "GET"
    THEN Out(200, data, "website", gate, FALSE, TRUE)
    ELSE Out(404, data, "notfound", gate, FALSE, FALSE)

\* Mutant: a session that is already authenticated passes without a decision.
requireNetworkAccess_sessionFirst(r) ==
    LET decision == isOnCorrectNetwork(r.ip)
        data == [r.data EXCEPT !.authenticated = TRUE, !.connectedAt = now]
    IN  IF r.data.authenticated THEN website(r, r.data, "none")
        ELSE CASE decision = "allow" -> website(r, data, "allow")
               [] decision = "deny" -> Out(403, r.data, "none", "deny", FALSE, FALSE)
               [] decision = "throw" -> Out(500, r.data, "none", "throw", FALSE, FALSE)

\* Mutant: the decision of the request that created the session is reused.
requireNetworkAccess_cached(r) ==
    LET decision == IF r.token = "valid" THEN "allow" ELSE isOnCorrectNetwork(r.ip)
        data == IF r.data.authenticated THEN r.data
                ELSE [r.data EXCEPT !.authenticated = TRUE, !.connectedAt = now]
    IN  CASE decision = "allow" -> website(r, data, "allow")
          [] decision = "deny" -> Out(403, r.data, "none", "deny", FALSE, FALSE)
          [] decision = "throw" -> Out(500, r.data, "none", "throw", FALSE, FALSE)

\* Mutant: once some client holds a session, everybody is let in.
requireNetworkAccess_history(r) ==
    LET decision == IF DOMAIN sessions # {} THEN "allow" ELSE isOnCorrectNetwork(r.ip)
        data == IF r.data.authenticated THEN r.data
                ELSE [r.data EXCEPT !.authenticated = TRUE, !.connectedAt = now]
    IN  CASE decision = "allow" -> website(r, data, "allow")
          [] decision = "deny" -> Out(403, r.data, "none", "deny", FALSE, FALSE)
          [] decision = "throw" -> Out(500, r.data, "none", "throw", FALSE, FALSE)

requireNetworkAccess(r) ==
    LET decision == isOnCorrectNetwork(r.ip)
        data == IF r.data.authenticated THEN r.data
                ELSE [r.data EXCEPT !.authenticated = TRUE, !.connectedAt = now]
    IN  CASE decision = "allow" -> website(r, data, "allow")
          [] decision = "deny" -> Out(403, r.data, "none", "deny", FALSE, FALSE)
          [] decision = "throw" -> Out(500, r.data, "none", "throw", FALSE, FALSE)

app(r) ==
    IF r.method = "POST" /\ r.path = "/api/login"
    THEN Out(200, [r.data EXCEPT !.authenticated = TRUE, !.connectedAt = now],
             "login", "none", FALSE, FALSE)
    ELSE IF r.method = "POST" /\ r.path = "/api/logout"
    THEN Out(200, r.data, "logout", "none", TRUE, FALSE)
    ELSE IF r.method = "GET" /\ r.path = "/api/auth-status"
    THEN Out(200, r.data, "auth-status", "none", FALSE, FALSE)
    ELSE IF r.method = "POST" /\ r.path = "/api/admin/login"
    THEN IF r.password = adminPassword
         THEN Out(200, [r.data EXCEPT !.adminAuthenticated = TRUE],
                  "admin-login", "none", FALSE, FALSE)
         ELSE Out(401, r.data, "admin-login", "none", FALSE, FALSE)
    ELSE IF r.method = "GET" /\ r.path = "/api/admin/qr-code"
    THEN IF ~r.data.adminAuthenticated
         THEN Out(401, r.data, "qr-code", "none", FALSE, FALSE)
         ELSE Out(200, r.data, "qr-code", "none", FALSE, TRUE)
    ELSE IF r.method = "GET" /\ r.path = "/health"
    THEN Out(200, r.data, "health", "none", FALSE, FALSE)
    ELSE IF r.method = "GET" /\ r.path \in ProbePaths
    THEN Out(302, r.data, "probe", "none", FALSE, FALSE)
    ELSE IF r.method = "GET" /\ r.path = "/redirect"
    THEN Out(302, r.data, "redirect", "none", FALSE, FALSE)
    ELSE IF StartsWith(Chars(r.path), Chars("/api/admin")) \/ r.path = "/admin.html"
    THEN website(r, r.data, "none")
    ELSE requireNetworkAccess(r)

----------------------------------------------------------------------------
(* Handlers *)

NoStep == [kind |-> "none", method |-> "", path |-> "", ip |-> "", cookie |-> NoCookie,
           token |-> "none", authed |-> FALSE, status |-> 0, route |-> "none",
           gate |-> "none", setCookie |-> 0, up |-> 0, location |-> << >>,
           password |-> ""]

Step(kind, r, status, route, gate, setCookie) ==
    [kind |-> kind, method |-> r.method, path |-> r.path, ip |-> r.ip,
     cookie |-> r.cookie, token |-> r.token, authed |-> r.loaded.authenticated,
     status |-> status,
     route |-> route, gate |-> gate, setCookie |-> setCookie, up |-> r.up,
     location |-> IF route \in {"probe", "redirect"} THEN getServerUrl ELSE << >>,
     password |-> r.password]

\* One HTTP request through the routes, and through res.end unless the route
\* answers asynchronously. q is what stays in the callback queue. The logout
\* route deletes the session at once and answers from the store's deferred
\* destroy callback.
http(r, q) ==
    \E o \in {app(r)} :
    \E st \in {IF o.destroyed /\ ~r.fresh THEN Remove(sessions, r.sid) ELSE sessions} :
    \E r2 \in {[r EXCEPT !.data = o.data, !.status = o.status, !.gate = o.gate]} :
    \E e \in {resEnd(st, r2, o.destroyed)} :
        /\ UNCHANGED <<refused, conns, revoked>>
        /\ IF o.destroyed
           THEN /\ reqs' = Append(q, [r2 EXCEPT !.kind = "destroyed"])
                /\ serving' = serving
                /\ sessions' = st
                /\ nextSid' = nextSid
                /\ last' = last
           ELSE IF o.deferred
           THEN /\ reqs' = q
                /\ serving' = Append(serving, r2)
                /\ sessions' = st
                /\ nextSid' = nextSid
                /\ last' = Step("http", r, 0, o.route, o.gate, 0)
           ELSE /\ e.nextSid <= limit.sid + 1
                /\ reqs' = q
                /\ serving' = serving
                /\ sessions' = e.sessions
                /\ nextSid' = e.nextSid
                /\ last' = Step("http", r, o.status, o.route, o.gate, e.setCookie)

\* Mutant: the logout also closes the channels its session opened.
destroyed_closes(r, q) ==
    \E e \in {resEnd(sessions, r, TRUE)} :
        /\ reqs' = q
        /\ sessions' = e.sessions
        /\ nextSid' = e.nextSid
        /\ revoked' = IF r.fresh THEN revoked ELSE revoked \cup {r.sid}
        /\ last' = Step("http", r, r.status, "logout", "none", e.setCookie)
        /\ conns' = [c \in DOMAIN conns |->
                       IF ~r.fresh /\ conns[c].sid = r.sid
                       THEN [conns[c] EXCEPT !.state = "Closed", !.channel = "closed"]
                       ELSE conns[c]]
        /\ UNCHANGED <<serving, refused>>

\* The callback of req.session.destroy in the logout route: res.json.
destroyed(r, q) ==
    \E e \in {resEnd(sessions, r, TRUE)} :
        /\ reqs' = q
        /\ sessions' = e.sessions
        /\ nextSid' = e.nextSid
        /\ revoked' = IF r.fresh THEN revoked ELSE revoked \cup {r.sid}
        /\ last' = Step("http", r, r.status, "logout", "none", e.setCookie)
        /\ UNCHANGED <<serving, refused, conns>>

\* A Relay Connection as wss.on("connection") finds it. channel is the
\* client's side of it as the transport has it. rx is history: the frames
\* received on it so far.
Connection(r) ==
    [state |-> "Relaying", channel |-> "open", sid |-> r.sid, ip |-> r.ip, rx |-> << >>]

\* Mutant: a refused upgrade is first completed and then closed.
upgrade_closeAfter(r, q) ==
    /\ reqs' = q
    /\ UNCHANGED <<sessions, nextSid, serving, revoked>>
    /\ refused' = IF ~r.data.authenticated THEN refused \cup {r.up} ELSE refused
    /\ conns' = [c \in DOMAIN conns \cup {r.up} |->
                   IF c = r.up
                   THEN [Connection(r) EXCEPT
                           !.state = IF r.data.authenticated THEN "Relaying" ELSE "Closed"]
                   ELSE conns[c]]
    /\ last' = IF ~r.data.authenticated
               THEN Step("upgrade", r, 401, "none", "none", 0)
               ELSE Step("upgrade", r, 101, "connection", "none", 0)

\* Mutant: the admin flag opens the streaming channel as well.
upgrade_adminToo(r, q) ==
    /\ reqs' = q
    /\ UNCHANGED <<sessions, nextSid, serving, revoked>>
    /\ IF ~r.data.authenticated /\ ~r.data.adminAuthenticated
       THEN /\ refused' = refused \cup {r.up}
            /\ conns' = conns
            /\ last' = Step("upgrade", r, 401, "none", "none", 0)
       ELSE /\ refused' = refused
            /\ conns' = [c \in DOMAIN conns \cup {r.up} |->
                           IF c = r.up THEN Connection(r) ELSE conns[c]]
            /\ last' = Step("upgrade", r, 101, "connection", "none", 0)

\* server.on('upgrade'): the callback handed to sessionMiddleware.
upgrade(r, q) ==
    /\ reqs' = q
    /\ UNCHANGED <<sessions, nextSid, serving, revoked>>
    /\ IF ~r.data.authenticated
       THEN /\ refused' = refused \cup {r.up}
            /\ conns' = conns
            /\ last' = Step("upgrade", r, 401, "none", "none", 0)
       ELSE /\ refused' = refused
            /\ conns' = [c \in DOMAIN conns \cup {r.up} |->
                           IF c = r.up THEN Connection(r) ELSE conns[c]]
            /\ last' = Step("upgrade", r, 101, "connection", "none", 0)

Handle(r, q) ==
    IF r.kind = "upgrade" THEN upgrade(r, q)
    ELSE IF r.kind = "destroyed" THEN destroyed(r, q)
    ELSE http(r, q)

\* A request or an upgrade attempt reaches the session middleware. With a
\* signed cookie of an issued session the store is read and the rest of the
\* chain runs from the store's deferred callback; otherwise a session is
\* generated and the chain continues synchronously.
Arrive(kind, method, path, ip, cookie, password) ==
    \E r \in {sessionMiddleware(kind, method, path, ip, cookie, password)} :
        /\ alive
        /\ boot.server \in {"http", "https"}
        /\ last = NoStep
        /\ Len(reqs) + Len(serving) < limit.inflight
        /\ kind = "upgrade" => nextUp <= limit.up
        /\ nextUp' = IF kind = "upgrade" THEN nextUp + 1 ELSE nextUp
        /\ UNCHANGED <<config, now, sink, alive>>
        /\ IF cookie \in 1..(nextSid - 1)
           THEN /\ sessions' = Evict(sessions, cookie)
                /\ reqs' = Append(reqs, r)
                /\ UNCHANGED <<nextSid, serving, refused, conns, last, revoked>>
           ELSE Handle(r, reqs)

\* The oldest deferred callback of the store runs.
Dispatch ==
    /\ alive
    /\ last = NoStep
    /\ reqs # << >>
    /\ UNCHANGED <<config, now, sink, nextUp, alive>>
    /\ Handle(Head(reqs), Tail(reqs))

\* res.end of a response that a route produced asynchronously.
Finish(i) ==
    \E r \in {serving[i]} :
    \E e \in {resEnd(sessions, r, FALSE)} :
        /\ alive
        /\ last = NoStep
        /\ e.nextSid <= limit.sid + 1
        /\ serving' = SubSeq(serving, 1, i - 1) \o SubSeq(serving, i + 1, Len(serving))
        /\ sessions' = e.sessions
        /\ nextSid' = e.nextSid
        /\ last' = Step("end", r, r.status, "none", r.gate, e.setCookie)
        /\ UNCHANGED <<config, now, reqs, relay, alive, revoked>>

\* The response (or the refusal of an upgrade) leaves the handler.
Respond ==
    /\ alive
    /\ last # NoStep
    /\ last' = NoStep
    /\ UNCHANGED <<config, now, sessions, nextSid, reqs, serving, relay, alive, revoked>>

Tick ==
    /\ alive
    /\ last = NoStep
    /\ now < limit.ticks * TickStep
    /\ now' = now + TickStep
    /\ UNCHANGED <<config, sessions, nextSid, reqs, serving, relay, last, alive, revoked>>

\* START SERVER: with HTTPS enabled the certificate files are looked for and
\* the HTTPS server listens, or the process exits; otherwise app.listen(PORT).
Start ==
    /\ alive
    /\ boot.server = "starting"
    /\ IF httpsEnabled(boot.HTTPS_ENABLED)
       THEN IF boot.certs
            THEN /\ boot' = [boot EXCEPT !.server = "https"]
                 /\ alive' = alive
            ELSE /\ boot' = [boot EXCEPT !.server = "exited", !.exit = <<1>>]
                 /\ alive' = FALSE
       ELSE /\ boot' = [boot EXCEPT !.server = "http"]
            /\ alive' = alive
    /\ UNCHANGED <<interfaces, SERVER_IP, mode, limit, client, now, sessions, nextSid,
                   reqs, serving, relay, last, revoked>>

----------------------------------------------------------------------------
(* Relay (wss.on("connection") handlers) *)

Frames == {"f1", "f2"}

\* What becomes of a datagram handed to udp.send without a callback: it is
\* sent; or the send fails and nobody is told; or the failure is emitted as
\* 'error' on the socket, which has no listener for it.
SendOutcomes == {"sent", "failed", "error"}

\* An 'error' event without a listener is thrown and nothing catches it: the
\* process exits and every channel closes with it. What the store and the
\* callback queue held at that moment stays as it was; nothing runs any more.
Crash(cs) ==
    /\ alive' = FALSE
    /\ conns' = [c \in DOMAIN cs |->
                   [cs[c] EXCEPT !.state = "Closed", !.channel = "closed"]]
    /\ UNCHANGED <<sessions, reqs, serving>>

\* Mutant: the frame goes out behind a header of the relay.
WsMessage_header(c, data) ==
    \E outcome \in SendOutcomes :
    \E cs \in {[conns EXCEPT ![c].rx = Append(@, data)]} :
        /\ alive
        /\ last = NoStep
        /\ conns[c].state = "Relaying"
        /\ conns[c].channel = "open"
        /\ Len(sink) < limit.dgram
        /\ sink' = Append(sink, [conn |-> c, data |-> "header",
                                 port |-> UDP_PORT, address |-> ESP32_IP])
        /\ UNCHANGED <<config, now, nextSid, nextUp, refused, last, revoked>>
        /\ IF outcome = "error"
           THEN Crash(cs)
           ELSE /\ conns' = cs
                /\ UNCHANGED <<sessions, reqs, serving, alive>>

\* Mutant: the newest datagram overtakes the ones handed over before it.
WsMessage_overtake(c, data) ==
    \E outcome \in SendOutcomes :
    \E cs \in {[conns EXCEPT ![c].rx = Append(@, data)]} :
        /\ alive
        /\ last = NoStep
        /\ conns[c].state = "Relaying"
        /\ conns[c].channel = "open"
        /\ Len(sink) < limit.dgram
        /\ sink' = <<[conn |-> c, data |-> data,
                      port |-> UDP_PORT, address |-> ESP32_IP]>> \o sink
        /\ UNCHANGED <<config, now, nextSid, nextUp, refused, last, revoked>>
        /\ IF outcome = "error"
           THEN Crash(cs)
           ELSE /\ conns' = cs
                /\ UNCHANGED <<sessions, reqs, serving, alive>>

\* Mutant: a frame is taken from a channel whatever its state.
WsMessage_anyState(c, data) ==
    \E outcome \in SendOutcomes :
    \E cs \in {[conns EXCEPT ![c].rx = Append(@, data)]} :
        /\ alive
        /\ last = NoStep
        /\ Len(sink) < limit.dgram
        /\ sink' = Append(sink, [conn |-> c, data |-> data,
                                 port |-> UDP_PORT, address |-> ESP32_IP])
        /\ UNCHANGED <<config, now, nextSid, nextUp, refused, last, revoked>>
        /\ IF outcome = "error"
           THEN Crash(cs)
           ELSE /\ conns' = cs
                /\ UNCHANGED <<sessions, reqs, serving, alive>>

\* Mutant: the relay takes frames from its channels in turns, so a channel
\* waits until every other Relaying channel has delivered as many frames.
WsMessage_turns(c, data) ==
    \E outcome \in SendOutcomes :
    \E cs \in {[conns EXCEPT ![c].rx = Append(@, data)]} :
        /\ alive
        /\ last = NoStep
        /\ conns[c].state = "Relaying"
        /\ conns[c].channel = "open"
        /\ \A d \in DOMAIN conns :
              conns[d].state = "Relaying" => Len(conns[d].rx) >= Len(conns[c].rx)
        /\ Len(sink) < limit.dgram
        /\ sink' = Append(sink, [conn |-> c, data |-> data,
                                 port |-> UDP_PORT, address |-> ESP32_IP])
        /\ UNCHANGED <<config, now, nextSid, nextUp, refused, last, revoked>>
        /\ IF outcome = "error"
           THEN Crash(cs)
           ELSE /\ conns' = cs
                /\ UNCHANGED <<sessions, reqs, serving, alive>>

\* ws.on("message"): forward the frame to the ESP32.
WsMessage(c, data) ==
    \E outcome \in SendOutcomes :
    \E cs \in {[conns EXCEPT ![c].rx = Append(@, data)]} :
        /\ alive
        /\ last = NoStep
        /\ conns[c].state = "Relaying"
        /\ conns[c].channel = "open"
        /\ Len(sink) < limit.dgram
        /\ sink' = Append(sink, [conn |-> c, data |-> data,
                                 port |-> UDP_PORT, address |-> ESP32_IP])
        /\ UNCHANGED <<config, now, nextSid, nextUp, refused, last, revoked>>
        /\ IF outcome = "error"
           THEN Crash(cs)
           ELSE /\ conns' = cs
                /\ UNCHANGED <<sessions, reqs, serving, alive>>

\* The peer of channel c is lost without a word (its power or its network is
\* gone): no close frame, no end of stream and no reset reaches the server,
\* which never writes to the channel, sets no keep-alive and no timer and
\* sends no ping, and so is never told.
PeerLost(c) ==
    /\ alive
    /\ last = NoStep
    /\ conns[c].state = "Relaying"
    /\ conns[c].channel = "open"
    /\ conns' = [conns EXCEPT ![c].channel = "lost"]
    /\ UNCHANGED <<config, now, sessions, nextSid, reqs, serving,
                   nextUp, refused, sink, last, alive, revoked>>

\* Mutant: closing one channel closes them all.
WsClose_all(c) ==
    /\ alive
    /\ last = NoStep
    /\ c \in DOMAIN conns
    /\ conns[c].state = "Relaying"
    /\ conns[c].channel = "open"
    /\ conns' = [d \in DOMAIN conns |->
                   [conns[d] EXCEPT !.state = "Closed", !.channel = "closed"]]
    /\ UNCHANGED <<config, now, sessions, nextSid, reqs, serving,
                   nextUp, refused, sink, last, alive, revoked>>

\* ws.on("close"): the peer closed the channel, or the transport reported its
\* end; the channel is gone and the handler only logs.
WsClose(c) ==
    /\ alive
    /\ last = NoStep
    /\ c \in DOMAIN conns
    /\ conns[c].state = "Relaying"
    /\ conns[c].channel = "open"
    /\ conns' = [conns EXCEPT ![c].state = "Closed", ![c].channel = "closed"]
    /\ UNCHANGED <<config, now, sessions, nextSid, reqs, serving,
                   nextUp, refused, sink, last, alive, revoked>>

\* ws.on("error"): the handler only logs; the library then closes the channel.
WsError(c) ==
    /\ alive
    /\ last = NoStep
    /\ c \in DOMAIN conns
    /\ conns[c].state = "Relaying"
    /\ conns[c].channel = "open"
    /\ conns' = [conns EXCEPT ![c].state = "Closed", ![c].channel = "closed"]
    /\ UNCHANGED <<config, now, sessions, nextSid, reqs, serving,
                   nextUp, refused, sink, last, alive, revoked>>

----------------------------------------------------------------------------
(* The browser client (public/app.js) *)

\* A global that holds no object.
Null == 0

\* The page once it has loaded and the session is known: nothing created, the
\* Start button to be seen and enabled, the Stop button hidden.
Page ==
    [ws |-> Null, mediaStream |-> Null, audioContext |-> Null, isAuthenticated |-> TRUE,
     startBtn |-> [disabled |-> FALSE, display |-> TRUE], stopBtn |-> [display |-> FALSE],
     sockets |-> << >>, streams |-> << >>, contexts |-> << >>, audio |-> << >>]

\* All of the server: the client's handlers change none of it.
server == <<interfaces, SERVER_IP, mode, limit, boot, now, sessions, nextSid, reqs,
           serving, relay, last, alive, revoked>>

\* stopStreaming(): on the globals, whatever they hold at the moment. close()
\* on a socket starts its closing handshake; its close event comes later.
stopStreaming(p) ==
    [p EXCEPT
       !.streams = IF p.mediaStream # Null
                   THEN [@ EXCEPT ![p.mediaStream] = "stopped"] ELSE @,
       !.mediaStream = Null,
       !.contexts = IF p.audioContext # Null
                    THEN [@ EXCEPT ![p.audioContext] = "closed"] ELSE @,
       !.audioContext = Null,
       !.sockets = IF p.ws # Null
                   THEN [@ EXCEPT ![p.ws] = IF @ \in {"CONNECTING", "OPEN"}
                                            THEN "CLOSING" ELSE @]
                   ELSE @,
       !.ws = Null,
       !.startBtn = [disabled |-> FALSE, display |-> TRUE],
       !.stopBtn = [display |-> FALSE]]

\* startBtn.onclick
StartClick ==
    /\ client.startBtn.display /\ ~client.startBtn.disabled
    /\ Len(client.sockets) < limit.sockets
    /\ client' = IF ~client.isAuthenticated THEN client
                 ELSE [client EXCEPT !.startBtn.disabled = TRUE,
                                     !.sockets = Append(@, "CONNECTING"),
                                     !.ws = Len(client.sockets) + 1]
    /\ UNCHANGED server

\* ws.onopen of socket n: startAudio() runs up to its first await.
ClientOpen(n) ==
    /\ client.sockets[n] = "CONNECTING"
    /\ client' = [client EXCEPT !.sockets[n] = "OPEN",
                                !.audio = Append(@, [pc |-> "getUserMedia", context |-> Null])]
    /\ UNCHANGED server

\* ws.onerror of socket n: the connection has failed; its close event follows.
ClientError(n) ==
    /\ client.sockets[n] \in {"CONNECTING", "OPEN"}
    /\ client' = [client EXCEPT !.sockets[n] = "FAILED", !.startBtn.disabled = FALSE]
    /\ UNCHANGED server

\* ws.onclose of socket n, which the server has closed, which has failed, or
\* whose closing has completed: stopStreaming().
ClientClose(n) ==
    /\ client.sockets[n] \in {"OPEN", "FAILED", "CLOSING"}
    /\ client' = stopStreaming([client EXCEPT !.sockets[n] = "CLOSED"])
    /\ UNCHANGED server

\* startAudio() call a resumes after getUserMedia: with a stream it goes on to
\* its second await; a refusal is caught and ends in stopStreaming().
GetUserMedia(a, granted) ==
    /\ client.audio[a].pc = "getUserMedia"
    /\ client' =
          IF granted
          THEN [client EXCEPT !.streams = Append(@, "live"),
                              !.mediaStream = Len(client.streams) + 1,
                              !.contexts = Append(@, "running"),
                              !.audioContext = Len(client.contexts) + 1,
                              !.audio[a] = [pc |-> "addModule",
                                            context |-> Len(client.contexts) + 1]]
          ELSE stopStreaming([client EXCEPT !.audio[a].pc = "done"])
    /\ UNCHANGED server

\* startAudio() call a resumes after addModule. It builds the nodes on the
\* globals: if audioContext is no longer the context whose module it loaded
\* (null, or a newer one without the processor), or the load failed, the
\* exception is caught and ends in stopStreaming().
AddModule(a, loaded) ==
    /\ client.audio[a].pc = "addModule"
    /\ client' =
          IF loaded /\ client.audioContext = client.audio[a].context
          THEN [client EXCEPT !.audio[a].pc = "done",
                              !.startBtn.display = FALSE,
                              !.stopBtn.display = TRUE]
          ELSE stopStreaming([client EXCEPT !.audio[a].pc = "done"])
    /\ UNCHANGED server

\* stopBtn.onclick
StopClick ==
    /\ client.stopBtn.display
    /\ client' = stopStreaming(client)
    /\ UNCHANGED server

----------------------------------------------------------------------------
(* Specifications *)

Lo == Iface("IPv4", TRUE, "127.0.0.1")

IfaceConfigs ==
    { <<Lo, Iface("IPv6", FALSE, "fe80::1"), Iface("IPv4", FALSE, "192.168.8.101")>> }

ClientIPs == {"::ffff:192.168.8.102", "103.45.67.89", Undefined}

\* The requests clients send: method, path and, for the admin login, the
\* password of the body.
Rq(method, path, password) == [method |-> method, path |-> path, password |-> password]

HttpRequests ==
    { Rq("POST", "/api/login", ""), Rq("POST", "/api/logout", ""),
      Rq("GET", "/api/auth-status", ""),
      Rq("POST", "/api/admin/login", adminPassword), Rq("POST", "/api/admin/login", "guess"),
      Rq("GET", "/api/admin/qr-code", ""), Rq("GET", "/health", ""),
      Rq("GET", "/generate_204", ""), Rq("GET", "/redirect", ""),
      Rq("GET", "/admin.html", ""), Rq("GET", "/", ""), Rq("POST", "/", "") }

Cookies == {NoCookie, Forged} \cup (1..(nextSid - 1))

Init ==
    /\ interfaces \in IfaceConfigs
    /\ SERVER_IP = getServerIP(interfaces)
    /\ mode \in {"local", "public"}
    /\ now = 0
    /\ sessions = << >>
    /\ nextSid = 1
    /\ reqs = << >>
    /\ serving = << >>
    /\ nextUp = 1
    /\ refused = {}
    /\ conns = << >>
    /\ sink = << >>
    /\ last = NoStep
    /\ alive = TRUE
    /\ revoked = {}
    /\ limit = [inflight |-> MaxInflight, sid |-> MaxSid, up |-> MaxUpgrades,
                dgram |-> MaxDatagrams, ticks |-> MaxTicks, sockets |-> 0]
    /\ boot = Started
    /\ client = Page

Request ==
    \E q \in HttpRequests, ip \in ClientIPs, cookie \in Cookies :
        Arrive("http", q.method, q.path, ip, cookie, q.password)

UpgradeRequest ==
    \E ip \in ClientIPs, cookie \in Cookies :
        Arrive("upgrade", "GET", "/", ip, cookie, "")

Next ==
    \/ Request
    \/ UpgradeRequest
    \/ Dispatch
    \/ \E i \in 1..Len(serving) : Finish(i)
    \/ Respond
    \/ Tick
    \/ \E c \in DOMAIN conns, data \in Frames : WsMessage(c, data)
    \/ \E c \in DOMAIN conns : WsClose(c)
    \/ \E c \in DOMAIN conns : WsError(c)

Spec == Init /\ [][Next]_vars

----------------------------------------------------------------------------
(* The subnet decision on its own: every startup configuration, every address *)

AllIfaceConfigs ==
    { <<Lo, Iface("IPv6", FALSE, "fe80::1"), Iface("IPv4", FALSE, "192.168.8.101")>>,
      <<Lo>>,
      <<Lo, Iface("IPv4", FALSE, "103.45.67.89"), Iface("IPv6", FALSE, "fe80::1")>>,
      <<Lo, Iface("IPv4", FALSE, "8.8.8.8"), Iface("IPv4", FALSE, "10.0.0.7")>>,
      <<Iface("IPv4", FALSE, "172.32.0.1"), Iface("IPv4", FALSE, "172.20.1.4"), Lo>>,
      <<Iface("IPv4", TRUE, "192.168.9.50"), Iface("IPv4", FALSE, "192.168.8.101"),
        Iface("IPv4", FALSE, "10.0.0.7")>> }

AllClientIPs ==
    { "192.168.8.101", "192.168.8.102", "::ffff:192.168.8.102", "192.168.9.50",
      "192.168.80.1", "103.45.67.89", "10.0.0.7", "10.0.0.9", "172.20.1.4",
      "172.20.1.77", "172.32.0.1", "8.8.8.8", "127.0.0.1", "::ffff:127.0.0.1",
      "::1", "localhost", "0.0.0.5", "fe80::1", "192.168.8", Undefined }

\* requireNetworkAccess asks for the decision on a request from clientIP.
Authorize(clientIP) ==
    /\ last' = [NoStep EXCEPT !.kind = "authorize", !.ip = clientIP,
                              !.gate = isOnCorrectNetwork(clientIP)]
    /\ UNCHANGED <<config, now, sessions, nextSid, reqs, serving, relay, alive, revoked>>

AuthInit ==
    /\ interfaces \in AllIfaceConfigs
    /\ SERVER_IP = getServerIP(interfaces)
    /\ mode \in {"local", "public"}
    /\ now = 0
    /\ sessions = << >>
    /\ nextSid = 1
    /\ reqs = << >>
    /\ serving = << >>
    /\ nextUp = 1
    /\ refused = {}
    /\ conns = << >>
    /\ sink = << >>
    /\ last = NoStep
    /\ alive = TRUE
    /\ revoked = {}
    /\ limit = [inflight |-> MaxInflight, sid |-> MaxSid, up |-> MaxUpgrades,
                dgram |-> MaxDatagrams, ticks |-> MaxTicks, sockets |-> 0]
    /\ boot = Started
    /\ client = Page

AuthNext == \E clientIP \in AllClientIPs : Authorize(clientIP)

SpecAuth == AuthInit /\ [][AuthNext]_vars

----------------------------------------------------------------------------
(* The session store under concurrent requests: gated requests, status
   requests, logouts and upgrade attempts, two of them in flight at a time on
   any token; an admin logs in only while nothing else is in flight *)

StoreInflight == 2
StoreSids == 2

StoreRequests ==
    { Rq("GET", "/", ""), Rq("POST", "/api/logout", ""), Rq("GET", "/api/auth-status", "") }

StoreClientIPs == {"::ffff:192.168.8.102", "103.45.67.89"}

StoreInit ==
    /\ interfaces \in IfaceConfigs
    /\ SERVER_IP = getServerIP(interfaces)
    /\ mode = "local"
    /\ now = 0
    /\ sessions = << >>
    /\ nextSid = 1
    /\ reqs = << >>
    /\ serving = << >>
    /\ nextUp = 1
    /\ refused = {}
    /\ conns = << >>
    /\ sink = << >>
    /\ last = NoStep
    /\ alive = TRUE
    /\ revoked = {}
    /\ limit = [inflight |-> StoreInflight, sid |-> StoreSids, up |-> MaxUpgrades,
                dgram |-> 0, ticks |-> 0, sockets |-> 0]
    /\ boot = Started
    /\ client = Page

StoreRequest ==
    \E q \in StoreRequests, ip \in StoreClientIPs, cookie \in Cookies \ {Forged} :
        Arrive("http", q.method, q.path, ip, cookie, q.password)

StoreAdminLogin ==
    /\ reqs = << >>
    /\ serving = << >>
    /\ \E ip \in StoreClientIPs :
          Arrive("http", "POST", "/api/admin/login", ip, NoCookie, adminPassword)

StoreUpgradeRequest ==
    \E ip \in StoreClientIPs, cookie \in Cookies \ {Forged} :
        Arrive("upgrade", "GET", "/", ip, cookie, "")

StoreNext ==
    \/ StoreRequest
    \/ StoreAdminLogin
    \/ StoreUpgradeRequest
    \/ Dispatch
    \/ \E i \in 1..Len(serving) : Finish(i)
    \/ Respond

SpecStore == StoreInit /\ [][StoreNext]_vars

----------------------------------------------------------------------------
(* The lifetime of a session: a client that keeps presenting its cookie while
   the clock runs past the session lifetime *)

ExpiryTicks == 3

ExpiryRequests == { Rq("GET", "/", ""), Rq("GET", "/api/auth-status", "") }

ExpiryInit ==
    /\ interfaces \in IfaceConfigs
    /\ SERVER_IP = getServerIP(interfaces)
    /\ mode = "local"
    /\ now = 0
    /\ sessions = << >>
    /\ nextSid = 1
    /\ reqs = << >>
    /\ serving = << >>
    /\ nextUp = 1
    /\ refused = {}
    /\ conns = << >>
    /\ sink = << >>
    /\ last = NoStep
    /\ alive = TRUE
    /\ revoked = {}
    /\ limit = [inflight |-> MaxInflight, sid |-> MaxSid, up |-> MaxUpgrades,
                dgram |-> 0, ticks |-> ExpiryTicks, sockets |-> 0]
    /\ boot = Started
    /\ client = Page

ExpiryRequest ==
    \E q \in ExpiryRequests, ip \in StoreClientIPs, cookie \in Cookies \ {Forged} :
        Arrive("http", q.method, q.path, ip, cookie, q.password)

ExpiryNext ==
    \/ ExpiryRequest
    \/ StoreUpgradeRequest
    \/ Dispatch
    \/ \E i \in 1..Len(serving) : Finish(i)
    \/ Respond
    \/ Tick

SpecExpiry == ExpiryInit /\ [][ExpiryNext]_vars

----------------------------------------------------------------------------
(* The relay under concurrent channels: one client on the subnet loads the
   page and opens channels; frames arrive on them in any interleaving *)

RelayConns == 2
RelayFrames == 3

RelayInit ==
    /\ interfaces \in IfaceConfigs
    /\ SERVER_IP = getServerIP(interfaces)
    /\ mode = "local"
    /\ now = 0
    /\ sessions = << >>
    /\ nextSid = 1
    /\ reqs = << >>
    /\ serving = << >>
    /\ nextUp = 1
    /\ refused = {}
    /\ conns = << >>
    /\ sink = << >>
    /\ last = NoStep
    /\ alive = TRUE
    /\ revoked = {}
    /\ limit = [inflight |-> MaxInflight, sid |-> MaxSid, up |-> RelayConns,
                dgram |-> RelayFrames, ticks |-> 0, sockets |-> 0]
    /\ boot = Started
    /\ client = Page

RelayRequest ==
    \E cookie \in Cookies \ {Forged} :
        Arrive("http", "GET", "/", "::ffff:192.168.8.102", cookie, "")

RelayUpgradeRequest ==
    \E cookie \in Cookies \ {Forged} :
        Arrive("upgrade", "GET", "/", "::ffff:192.168.8.102", cookie, "")

RelayNext ==
    \/ RelayRequest
    \/ RelayUpgradeRequest
    \/ Dispatch
    \/ \E i \in 1..Len(serving) : Finish(i)
    \/ Respond
    \/ \E c \in DOMAIN conns, data \in Frames : WsMessage(c, data)
    \/ \E c \in DOMAIN conns : PeerLost(c)
    \/ \E c \in DOMAIN conns : WsClose(c)
    \/ \E c \in DOMAIN conns : WsError(c)

SpecRelay == RelayInit /\ [][RelayNext]_vars

\* A deferred callback of the store is waiting for its turn.
DispatchReady == alive /\ last = NoStep /\ reqs # << >>

\* The same with the event loop's scheduling: a callback that is ready to run
\* is run (weak fairness of Dispatch, with its enabling condition written
\* out), and a response that is ready leaves. What clients and peers do is up
\* to them.
SpecRelayLive ==
    /\ RelayInit
    /\ [][RelayNext]_vars
    /\ ([]<>(~DispatchReady) \/ []<><<Dispatch>>_vars)
    /\ WF_vars(\E i \in 1..Len(serving) : Finish(i))
    /\ WF_vars(Respond)

----------------------------------------------------------------------------
(* Captive-portal probes: devices on and off the subnet, with and without a
   session, ask for the probe paths while the clock runs *)

ProbeTicks == 1

ProbeRequests == {Rq("GET", "/", "")} \cup {Rq("GET", path, "") : path \in ProbePaths}

ProbeInit ==
    /\ interfaces \in IfaceConfigs
    /\ SERVER_IP = getServerIP(interfaces)
    /\ mode \in {"local", "public"}
    /\ now = 0
    /\ sessions = << >>
    /\ nextSid = 1
    /\ reqs = << >>
    /\ serving = << >>
    /\ nextUp = 1
    /\ refused = {}
    /\ conns = << >>
    /\ sink = << >>
    /\ last = NoStep
    /\ alive = TRUE
    /\ revoked = {}
    /\ limit = [inflight |-> MaxInflight, sid |-> MaxSid, up |-> 0,
                dgram |-> 0, ticks |-> ProbeTicks, sockets |-> 0]
    /\ boot = Started
    /\ client = Page

ProbeRequest ==
    \E q \in ProbeRequests, ip \in StoreClientIPs, cookie \in Cookies :
        Arrive("http", q.method, q.path, ip, cookie, q.password)

ProbeNext ==
    \/ ProbeRequest
    \/ Dispatch
    \/ \E i \in 1..Len(serving) : Finish(i)
    \/ Respond
    \/ Tick

SpecProbe == ProbeInit /\ [][ProbeNext]_vars

----------------------------------------------------------------------------
(* The start of the process: every setting of HTTPS_ENABLED, with and without
   the certificate files, and the first requests after it *)

HttpsSettings == {"unset", "true", "false"}

StartInit ==
    /\ interfaces \in IfaceConfigs
    /\ SERVER_IP = getServerIP(interfaces)
    /\ mode = "local"
    /\ now = 0
    /\ sessions = << >>
    /\ nextSid = 1
    /\ reqs = << >>
    /\ serving = << >>
    /\ nextUp = 1
    /\ refused = {}
    /\ conns = << >>
    /\ sink = << >>
    /\ last = NoStep
    /\ alive = TRUE
    /\ revoked = {}
    /\ limit = [inflight |-> MaxInflight, sid |-> MaxSid, up |-> MaxUpgrades,
                dgram |-> 0, ticks |-> 0, sockets |-> 0]
    /\ boot \in [HTTPS_ENABLED : HttpsSettings, certs : BOOLEAN,
                  server : {"starting"}, exit : { << >> }]
    /\ client = Page

StartNext ==
    \/ Start
    \/ StoreRequest
    \/ StoreUpgradeRequest
    \/ Dispatch
    \/ \E i \in 1..Len(serving) : Finish(i)
    \/ Respond

SpecStart == StartInit /\ [][StartNext]_vars

----------------------------------------------------------------------------
(* A channel that outlives its session: a client on the subnet loads the page,
   opens the channel, and logs out or lets the session run out; its peer
   starts to send only when the session is gone *)

OutliveFrames == 2
OutliveTicks == 2

OutliveRequests == { Rq("GET", "/", ""), Rq("POST", "/api/logout", "") }

\* The session that opened channel c is no longer in the store, or has run out.
SessionGone(c) ==
    IF conns[c].sid \in DOMAIN sessions
    THEN sessions[conns[c].sid].expires <= now
    ELSE TRUE

OutliveInit ==
    /\ interfaces \in IfaceConfigs
    /\ SERVER_IP = getServerIP(interfaces)
    /\ mode = "local"
    /\ now = 0
    /\ sessions = << >>
    /\ nextSid = 1
    /\ reqs = << >>
    /\ serving = << >>
    /\ nextUp = 1
    /\ refused = {}
    /\ conns = << >>
    /\ sink = << >>
    /\ last = NoStep
    /\ alive = TRUE
    /\ revoked = {}
    /\ limit = [inflight |-> MaxInflight, sid |-> MaxSid, up |-> MaxUpgrades,
                dgram |-> OutliveFrames, ticks |-> OutliveTicks, sockets |-> 0]
    /\ boot = Started
    /\ client = Page

OutliveRequest ==
    \E q \in OutliveRequests, cookie \in Cookies \ {Forged} :
        Arrive("http", q.method, q.path, "::ffff:192.168.8.102", cookie, q.password)

OutliveMessage ==
    \E c \in DOMAIN conns, data \in Frames : SessionGone(c) /\ WsMessage(c, data)

OutliveNext ==
    \/ OutliveRequest
    \/ RelayUpgradeRequest
    \/ Dispatch
    \/ \E i \in 1..Len(serving) : Finish(i)
    \/ Respond
    \/ Tick
    \/ OutliveMessage
    \/ \E c \in DOMAIN conns : WsClose(c)

SpecOutlive == OutliveInit /\ [][OutliveNext]_vars

----------------------------------------------------------------------------
(* The browser client on its own: the user clicks Start and Stop, sockets
   open, fail and close, and the microphone is granted or refused, in any
   order *)

MaxSockets == 3

ClientInit ==
    /\ interfaces \in IfaceConfigs
    /\ SERVER_IP = getServerIP(interfaces)
    /\ mode = "local"
    /\ now = 0
    /\ sessions = << >>
    /\ nextSid = 1
    /\ reqs = << >>
    /\ serving = << >>
    /\ nextUp = 1
    /\ refused = {}
    /\ conns = << >>
    /\ sink = << >>
    /\ last = NoStep
    /\ alive = TRUE
    /\ revoked = {}
    /\ limit = [inflight |-> 0, sid |-> 0, up |-> 0,
                dgram |-> 0, ticks |-> 0, sockets |-> MaxSockets]
    /\ boot = Started
    /\ client = Page

ClientNext ==
    \/ StartClick
    \/ StopClick
    \/ \E n \in 1..Len(client.sockets) : ClientOpen(n)
    \/ \E n \in 1..Len(client.sockets) : ClientError(n)
    \/ \E n \in 1..Len(client.sockets) : ClientClose(n)
    \/ \E a \in 1..Len(client.audio), granted \in BOOLEAN : GetUserMedia(a, granted)
    \/ \E a \in 1..Len(client.audio), loaded \in BOOLEAN : AddModule(a, loaded)

SpecClient == ClientInit /\ [][ClientNext]_vars

----------------------------------------------------------------------------
(* Properties of the subnet decision (SpecAuth) *)

\* The dotted-quad addresses of AllClientIPs and their first three components,
\* written out by hand.
Net24(a) ==
    CASE a = "192.168.8.101" -> "192.168.8" [] a = "192.168.8.102" -> "192.168.8"
      [] a = "192.168.9.50" -> "192.168.9"  [] a = "192.168.80.1" -> "192.168.80"
      [] a = "103.45.67.89" -> "103.45.67"  [] a = "10.0.0.7" -> "10.0.0"
      [] a = "10.0.0.9" -> "10.0.0"         [] a = "172.20.1.4" -> "172.20.1"
      [] a = "172.20.1.77" -> "172.20.1"    [] a = "172.32.0.1" -> "172.32.0"
      [] a = "8.8.8.8" -> "8.8.8"           [] a = "127.0.0.1" -> "127.0.0"
      [] a = "0.0.0.0" -> "0.0.0"           [] a = "0.0.0.5" -> "0.0.0"

DottedQuads ==
    { "192.168.8.101", "192.168.8.102", "192.168.9.50", "192.168.80.1", "103.45.67.89",
      "10.0.0.7", "10.0.0.9", "172.20.1.4", "172.20.1.77", "172.32.0.1", "8.8.8.8",
      "127.0.0.1", "0.0.0.5" }

LoopbackIPs == {"127.0.0.1", "::ffff:127.0.0.1", "::1"}

Undetermined == "0.0.0.0"

\* C4: in local mode with a determined server address, a non-loopback
\* dotted-quad client is allowed exactly when its first three components are
\* the server's first three components.
C4_SameSubnetIff ==
    (/\ last.kind = "authorize"
     /\ mode = "local"
     /\ SERVER_IP # Undetermined
     /\ last.ip \in DottedQuads \ LoopbackIPs)
    => (last.gate = "allow" <=> Net24(last.ip) = Net24(SERVER_IP))

C4_Witness ==
    /\ last.kind = "authorize" /\ mode = "local"
    /\ SERVER_IP = "192.168.8.101" /\ last.ip = "192.168.8.102"
    /\ last.gate = "allow"

\* C5: fail closed. In local mode with no private non-loopback interface at
\* startup, no client other than loopback is allowed.
C5_FailClosed ==
    (/\ last.kind = "authorize"
     /\ mode = "local"
     /\ \A i \in 1..Len(interfaces) :
           interfaces[i].internal \/ interfaces[i].family # "IPv4"
             \/ interfaces[i].address \in {"103.45.67.89", "8.8.8.8", "172.32.0.1"}
     /\ last.ip \notin LoopbackIPs \cup {"localhost"})
    => last.gate # "allow"

\* C6: in local mode a loopback client is allowed whatever the server address.
C6_LoopbackAllowed ==
    (last.kind = "authorize" /\ mode = "local" /\ last.ip \in LoopbackIPs)
    => last.gate = "allow"

C6_Witness ==
    /\ last.kind = "authorize" /\ mode = "local"
    /\ SERVER_IP = Undetermined /\ last.ip = "::ffff:127.0.0.1"
    /\ last.gate = "allow"

\* C7: in public mode every client address is allowed, whatever the server address.
C7_OpenAllowsAll ==
    (last.kind = "authorize" /\ mode = "public") => last.gate = "allow"

C7_Witness ==
    /\ last.kind = "authorize" /\ mode = "public"
    /\ last.ip = Undefined /\ SERVER_IP = Undetermined
    /\ last.gate = "allow"

----------------------------------------------------------------------------
(* Properties of the gates (Spec) *)

\* Spec starts with the server on 192.168.8.101; of ClientIPs only this
\* address is on its /24.
OnSubnet == {"::ffff:192.168.8.102"}

\* The decision the Subnet Authorizer owes a client of Spec.
Allowed(ip) == mode = "public" \/ ip \in OnSubnet

\* The paths the HTTP Gate is not meant to cover.
ExemptPaths ==
    {"/health", "/api/admin/login", "/api/admin/qr-code", "/admin.html",
     "/hotspot-detect.html", "/generate_204", "/gen_204", "/ncsi.txt", "/connecttest.txt"}

\* The paths of HttpRequests that reach the network validation middleware.
GatedPaths == {"/"}

PassedThrough(step) == step.route \in {"website", "notfound"}

\* C1: whenever a request leaves a session marked authenticated that it did
\* not find marked, the subnet decision for that request's client is allow;
\* no route marks a session for a client the decision does not allow.
C1_AuthenticatedOnlyByGate ==
    (/\ last.kind \in {"http", "end"}
     /\ last.setCookie \in DOMAIN sessions
     /\ sessions[last.setCookie].data.authenticated
     /\ ~last.authed)
    => Allowed(last.ip)

\* C2: an upgrade attempt presenting no token, an unknown token or the token
\* of an expired session is refused; a refused attempt has no Relay Connection
\* and no datagram in the sink.
C2_RefusedWithoutSession ==
    /\ (last.kind = "upgrade" /\ last.token \in {"none", "forged", "unknown", "expired"})
          => (last.status = 401 /\ last.up \in refused)
    /\ \A u \in refused :
          /\ u \notin DOMAIN conns
          /\ \A i \in 1..Len(sink) : sink[i].conn # u

C2_Witness ==
    /\ last.kind = "upgrade" /\ last.token = "expired"
    /\ last.status = 401 /\ last.up \in refused
    /\ last.up \notin DOMAIN conns

\* C3 as stated: no peer whose session is absent or not authenticated holds an
\* open channel.
C3_NoChannelWithoutSession ==
    \A c \in DOMAIN conns :
        conns[c].state = "Relaying"
        => /\ conns[c].sid \in DOMAIN sessions
           /\ sessions[conns[c].sid].expires > now
           /\ sessions[conns[c].sid].data.authenticated

\* C3 as amended: every upgrade attempt is checked once, before the handshake.
\* An attempt is waiting for its session, refused or accepted, never two of
\* these; the attempt just checked is refused with 401 and has no channel when
\* its session was absent or not authenticated at the check, and has a channel
\* otherwise.
C3_CheckedOnceBeforeHandshake ==
    /\ \A u \in 1..(nextUp - 1) :
          LET waiting == \E i \in 1..Len(reqs) : reqs[i].kind = "upgrade" /\ reqs[i].up = u
          IN  /\ waiting \/ u \in refused \/ u \in DOMAIN conns
              /\ ~(waiting /\ u \in refused)
              /\ ~(waiting /\ u \in DOMAIN conns)
              /\ ~(u \in refused /\ u \in DOMAIN conns)
    /\ last.kind = "upgrade"
          => IF last.authed
             THEN /\ last.status = 101
                  /\ last.up \in DOMAIN conns
                  /\ conns[last.up].state = "Relaying"
             ELSE /\ last.status = 401
                  /\ last.up \in refused
                  /\ last.up \notin DOMAIN conns

C3_Witness ==
    /\ last.kind = "upgrade" /\ last.token = "valid" /\ ~last.authed
    /\ last.status = 401 /\ last.up \in refused /\ conns = << >>

\* C8: a route outside the exempt paths is never invoked for a client that
\* the gate would deny.
C8_RoutesBehindGate ==
    (last.kind = "http" /\ last.route # "none" /\ last.path \notin ExemptPaths)
    => Allowed(last.ip)

\* C9 as stated: a gated request with a valid, authenticated session passes
\* through to the underlying route.
C9_SessionPassesThrough ==
    (/\ last.kind = "http"
     /\ last.path \in GatedPaths
     /\ last.token = "valid"
     /\ last.authed)
    => PassedThrough(last)

\* C9 as amended: for a gated request with a valid, authenticated session the
\* decision is still taken, and the request passes through exactly when the
\* decision for its client address is allow.
C9_SessionStillChecked ==
    (/\ last.kind = "http"
     /\ last.path \in GatedPaths
     /\ last.token = "valid"
     /\ last.authed)
    => /\ last.gate # "none"
       /\ PassedThrough(last) <=> Allowed(last.ip)

C9_Witness ==
    /\ last.kind = "http" /\ last.path \in GatedPaths
    /\ last.token = "valid" /\ last.authed
    /\ mode = "local" /\ last.ip = "103.45.67.89"
    /\ last.status = 403

\* C10: in local mode a gated request passes through only if the client
\* address of that request is on the server's subnet, session or not.
C10_CheckedOnEveryRequest ==
    (/\ mode = "local"
     /\ last.kind = "http"
     /\ last.path \in GatedPaths
     /\ PassedThrough(last))
    => (last.gate = "allow" /\ last.ip \in OnSubnet)

C10_Witness ==
    /\ mode = "local" /\ last.kind = "http" /\ last.path \in GatedPaths
    /\ last.token = "valid" /\ last.authed
    /\ PassedThrough(last) /\ last.ip \in OnSubnet

----------------------------------------------------------------------------
(* Properties of the session store and of denial (Spec, SpecStore) *)

\* The step is the answer to a request that the gate denied.
Denied == last = NoStep /\ last'.kind = "http" /\ last'.gate = "deny"

\* C11: a step in which the gate denies a request answers 403 without
\* invoking a route and without a cookie, issues no session, leaves every
\* session record that has not expired exactly as it was, and leaves the
\* server running.
C11_DenyLeavesNoTrace ==
    [][Denied =>
          /\ last'.status = 403
          /\ last'.route = "none"
          /\ last'.setCookie = 0
          /\ nextSid' = nextSid
          /\ DOMAIN sessions' \subseteq DOMAIN sessions
          /\ \A s \in DOMAIN sessions :
                sessions[s].expires > now
                => (s \in DOMAIN sessions' /\ sessions'[s] = sessions[s])
          /\ alive']_vars

\* What of C11 the code does keep: the data of every unexpired record.
DenyKeepsData ==
    [][Denied =>
          /\ last'.status = 403
          /\ last'.route = "none"
          /\ last'.setCookie = 0
          /\ nextSid' = nextSid
          /\ DOMAIN sessions' \subseteq DOMAIN sessions
          /\ \A s \in DOMAIN sessions :
                sessions[s].expires > now
                => (s \in DOMAIN sessions' /\ sessions'[s].data = sessions[s].data)
          /\ alive']_vars

\* C12: an upgrade attempt from an address that the subnet decision does not
\* allow is refused, whatever session it presents.
C12_RecheckedAtUpgrade ==
    (last.kind = "upgrade" /\ ~Allowed(last.ip))
    => (last.status = 401 /\ last.up \in refused /\ last.up \notin DOMAIN conns)

\* The step ends a response on which the gate has issued a session: the
\* decision was allow and the response carries the new session's cookie.
Issued == last.kind \in {"http", "end"} /\ last.gate = "allow" /\ last.setCookie # 0

\* The lookups a client can make with a token: a gated request, the status
\* route, an upgrade attempt.
Lookups(ip, cookie) ==
    { sessionMiddleware("http", "GET", "/", ip, cookie, ""),
      sessionMiddleware("http", "GET", "/api/auth-status", ip, cookie, ""),
      sessionMiddleware("upgrade", "GET", "/", ip, cookie, "") }

\* C13: right after the gate has issued a session, every lookup with the
\* returned token finds that session, authenticated and not expired; a lookup
\* with a token that was never issued finds no session.
C13_IssuedThenFound ==
    /\ Issued =>
          \A r \in Lookups(last.ip, last.setCookie) :
              /\ r.token = "valid"
              /\ ~r.fresh
              /\ r.sid = last.setCookie
              /\ r.data.authenticated
              /\ r.data.connectedAt # -1
              /\ sessions[r.sid].expires > now
    /\ \A cookie \in {Forged, nextSid, nextSid + 1} :
          \A r \in Lookups("::ffff:192.168.8.102", cookie) :
              r.fresh /\ r.data = EmptyData
    /\ (last.kind = "upgrade" /\ last.token = "forged") => last.status = 401

C13_Witness ==
    /\ Issued /\ last.kind = "end" /\ last.setCookie = 1
    /\ sessions[1].data.authenticated /\ sessions[1].issuedAt = now

\* C14: once the issue time of a session plus the session lifetime has
\* passed, no lookup with its token finds it: a request gets a fresh, empty
\* session and an upgrade attempt is not authenticated.
C14_AbsentAfterLifetime ==
    \A s \in DOMAIN sessions :
        now > sessions[s].issuedAt + cookieMaxAge
        => \A r \in Lookups("::ffff:192.168.8.102", s) :
               r.fresh /\ ~r.data.authenticated

\* C15: once POST /api/logout has been answered for a session, no lookup with
\* its token finds a session, and an upgrade attempt presenting the token is
\* refused.
C15_LogoutRemoves ==
    /\ \A s \in revoked :
          \A r \in Lookups("::ffff:192.168.8.102", s) :
              r.fresh /\ ~r.data.authenticated
    /\ (last.kind = "upgrade" /\ last.cookie \in revoked) => last.status = 401

\* A session as a lookup may observe it: authenticated is set exactly when
\* connectedAt is.
Complete(data) == data.authenticated <=> data.connectedAt # -1

\* Every record in the store and every copy a lookup has handed to a request
\* or an upgrade attempt is complete.
AllComplete ==
    /\ \A s \in DOMAIN sessions : Complete(sessions[s].data)
    /\ \A i \in 1..Len(reqs) : Complete(reqs[i].loaded) /\ Complete(reqs[i].data)
    /\ \A i \in 1..Len(serving) : Complete(serving[i].loaded) /\ Complete(serving[i].data)

\* C16: with gated requests, logouts and upgrade attempts on one token in
\* flight together, every lookup observes no record or a complete one, and an
\* upgrade attempt is accepted only for a token whose logout has not been
\* answered.
C16_CompleteAndNotRevoked ==
    /\ AllComplete
    /\ (last.kind = "upgrade" /\ last.status = 101) => last.cookie \notin revoked

----------------------------------------------------------------------------
(* Properties of the relay (SpecRelay) *)

\* The datagram the relay owes the sink for a frame received on connection c.
Datagram(c, data) == [conn |-> c, data |-> data, port |-> UDP_PORT, address |-> ESP32_IP]

\* In this step a frame is received on connection c.
Receives(c) == Len(conns'[c].rx) = Len(conns[c].rx) + 1

\* In this step connection c closes, by either peer or after a transport
\* error, and the process goes on.
Closes(c) == conns[c].state = "Relaying" /\ conns'[c].state = "Closed" /\ alive'

\* C17: a step that receives a frame hands exactly one datagram to the socket,
\* with the frame as payload and the configured address and port; no other
\* step hands over a datagram, and none already handed over is changed.
C17_OneDatagramPerFrame ==
    [][/\ \A c \in DOMAIN conns :
             Receives(c)
             => sink' = Append(sink, Datagram(c, conns'[c].rx[Len(conns'[c].rx)]))
       /\ sink' # sink => \E c \in DOMAIN conns : Receives(c)
       /\ \A c \in DOMAIN conns : conns'[c].rx # conns[c].rx => Receives(c)]_vars

C17_Witness ==
    /\ DOMAIN conns = {1, 2}
    /\ Len(sink) = 3
    /\ conns[1].rx = <<"f1", "f2">> /\ conns[2].rx = <<"f2">>
    /\ \A i \in 1..3 : sink[i].address = "192.168.1.25" /\ sink[i].port = 5005

\* The payloads of the datagrams of connection c, in the order in which the
\* socket got them.
RECURSIVE Forwarded(_, _)
Forwarded(c, i) ==
    IF i = 0 THEN << >>
    ELSE IF sink[i].conn = c THEN Append(Forwarded(c, i - 1), sink[i].data)
    ELSE Forwarded(c, i - 1)

\* C18: for every connection, the datagrams attributable to it are its frames
\* in the order in which it received them, however the connections' message
\* events interleave.
C18_OrderPerConnection ==
    \A c \in DOMAIN conns : Forwarded(c, Len(sink)) = conns[c].rx

C18_Witness ==
    /\ DOMAIN conns = {1, 2}
    /\ conns[1].state = "Relaying" /\ conns[2].state = "Relaying"
    /\ Len(sink) = 3
    /\ sink[1].conn = 1 /\ sink[2].conn = 2 /\ sink[3].conn = 1
    /\ conns[1].rx = <<"f1", "f2">> /\ conns[2].rx = <<"f1">>

\* C19: a step that closes one connection changes no other connection and no
\* datagram; and a frame received on a connection while another one is closed
\* is forwarded like any other.
C19_CloseIsLocal ==
    [][/\ \A c \in DOMAIN conns :
             Closes(c)
             => /\ sink' = sink
                /\ \A d \in DOMAIN conns \ {c} : conns'[d] = conns[d]
       /\ \A d \in DOMAIN conns :
             (Receives(d) /\ \E c \in DOMAIN conns : conns[c].state = "Closed")
             => (/\ conns[d].state = "Relaying"
                 /\ sink' = Append(sink, Datagram(d, conns'[d].rx[Len(conns'[d].rx)])))]_vars

\* Connection 1 received a frame and closed; connection 2, open since before
\* that frame, is still Relaying and its later frame is in the sink.
C19_Witness ==
    /\ DOMAIN conns = {1, 2}
    /\ conns[1].state = "Closed" /\ conns[2].state = "Relaying"
    /\ alive
    /\ Len(sink) = 3
    /\ sink[1].conn = 2 /\ sink[2].conn = 1 /\ sink[3].conn = 2

\* C20: a step that hands a datagram to the socket, sent or not, leaves the
\* process running and every connection in the state it was in; the datagram
\* is handed over once.
C20_SendFailureNotFatal ==
    [][sink' # sink
       => /\ alive'
          /\ Len(sink') = Len(sink) + 1
          /\ \A c \in DOMAIN conns : conns'[c].state = conns[c].state]_vars

----------------------------------------------------------------------------
(* The life of a Relay Connection (SpecRelay) *)

\* The number of datagrams handed to the UDP socket for connection c.
SentFor(s, c) == Cardinality({i \in 1..Len(s) : s[i].conn = c})

\* C21: a Relay Connection comes into existence only in the step in which an
\* upgrade attempt with an authenticated session is accepted, and it is
\* Relaying from then on; it receives and forwards only while Relaying; its
\* only move is from Relaying to Closed, and a Closed connection never changes
\* again: no frame is received on it, no datagram goes out for it, and it
\* never returns to Relaying.
C21_RelayingThenClosed ==
    [][ /\ \A c \in DOMAIN conns' \ DOMAIN conns :
              /\ conns'[c].state = "Relaying"
              /\ last'.kind = "upgrade" /\ last'.status = 101
              /\ last'.up = c /\ last'.authed
        /\ \A c \in DOMAIN conns :
              /\ c \in DOMAIN conns'
              /\ conns'[c].state \in {"Relaying", "Closed"}
              /\ conns[c].state = "Closed" => conns'[c] = conns[c]
              /\ (conns'[c].rx # conns[c].rx \/ SentFor(sink', c) # SentFor(sink, c))
                    => conns[c].state = "Relaying" ]_vars

\* One channel has relayed a frame and is Closed; the other is still Relaying
\* and has relayed a frame after that.
C21_Witness ==
    /\ DOMAIN conns = {1, 2}
    /\ conns[1].state = "Closed" /\ conns[1].rx # << >>
    /\ conns[2].state = "Relaying" /\ conns[2].rx # << >>
    /\ Len(sink) = 2 /\ sink[1].conn = 1 /\ sink[2].conn = 2
    /\ alive

----------------------------------------------------------------------------
(* The end of a channel (SpecRelayLive) *)

\* The inbound channel of connection c has closed or failed.
ChannelGone(c) == c \in DOMAIN conns /\ conns[c].channel # "open"

IsClosed(c) == c \in DOMAIN conns /\ conns[c].state = "Closed"

ReportedEndCloses ==
    \A c \in DOMAIN conns :
        (conns[c].state = "Relaying" /\ conns[c].channel # "open")
            => conns[c].channel = "lost"

----------------------------------------------------------------------------
(* Channels do not wait for each other (SpecRelay) *)

\* The event loop is idle and the process is up: a handler can run.
Idle == alive /\ last = NoStep

----------------------------------------------------------------------------
(* The decision as a function of its three inputs (Spec) *)

\* The decision as a table over the mode, the client address the transport
\* reports and the server address, for the addresses of Spec. With no address
\* to look at, the evaluation in local mode ends in an exception.
Verdict(m, ip, serverIP) ==
    IF m = "public" THEN "allow"
    ELSE IF ip = Undefined THEN "throw"
    ELSE IF ip \in LoopbackIPs THEN "allow"
    ELSE IF serverIP # Undetermined /\ Net24(Replace(ip, "::ffff:", "")) = Net24(serverIP)
    THEN "allow"
    ELSE "deny"

\* C24: whenever the gate asks for the decision, the outcome is the one the
\* table gives for the mode, the client address of the transport and the
\* server address: the cookie presented, the state of the session and of the
\* store, the channels and everything that happened before have no part in it.
C24_DecisionIsAFunction ==
    (last.kind = "http" /\ last.gate # "none")
        => last.gate = Verdict(mode, last.ip, SERVER_IP)

\* Late in a run, with a channel open, the holder of an authorized session is
\* denied from an address off the subnet, as a client without a session is.
C24_Witness ==
    /\ mode = "local" /\ last.kind = "http" /\ last.gate = "deny"
    /\ last.token = "valid" /\ last.authed
    /\ now > 0 /\ DOMAIN conns # {}

----------------------------------------------------------------------------
(* Captive-portal probes (SpecProbe) *)

\* The URL under which the running server is reached.
CanonicalUrl ==
    <<boot.server, SERVER_IP, IF boot.server = "https" THEN HTTPS_PORT ELSE PORT>>

\* A step in which a probe path answers.
Probed == last = NoStep /\ last'.kind = "http" /\ last'.path \in ProbePaths

\* C25: every GET of a probe path is answered 302 with the canonical server
\* URL as location, whatever the client address and the session presented;
\* the step sets no cookie, issues no session and leaves every session record
\* that has not expired exactly as it was.
C25_ProbeOnlyRedirects ==
    [][Probed =>
          /\ last'.status = 302
          /\ last'.location = CanonicalUrl
          /\ last'.gate = "none"
          /\ last'.setCookie = 0
          /\ nextSid' = nextSid
          /\ DOMAIN sessions' \subseteq DOMAIN sessions
          /\ \A s \in DOMAIN sessions :
                sessions[s].expires > now
                => (s \in DOMAIN sessions' /\ sessions'[s] = sessions[s])]_vars

\* What of C25 the code does keep: the redirect, for every client alike, and
\* the data of every unexpired record.
ProbeKeepsData ==
    [][Probed =>
          /\ last'.status = 302
          /\ last'.location = CanonicalUrl
          /\ last'.gate = "none"
          /\ last'.setCookie = 0
          /\ nextSid' = nextSid
          /\ DOMAIN sessions' \subseteq DOMAIN sessions
          /\ \A s \in DOMAIN sessions :
                sessions[s].expires > now
                => (s \in DOMAIN sessions' /\ sessions'[s].data = sessions[s].data)]_vars

----------------------------------------------------------------------------
(* The administrative surface (Spec) *)

\* Session s carries the admin flag in store st.
IsAdmin(st, s) == s \in DOMAIN st /\ st[s].data.adminAuthenticated

\* A step in which POST /api/admin/login answers a wrong password.
WrongPassword ==
    /\ last = NoStep /\ last'.kind = "http"
    /\ last'.route = "admin-login" /\ last'.password # adminPassword

\* C26: the QR-code route answers 401 unless the request presents a session
\* with adminAuthenticated set; a session gets that flag only in a step in
\* which the admin login answers a request with the configured password; and
\* a login with a wrong password answers 401, sets no cookie, issues no
\* session and leaves every session record that has not expired exactly as it
\* was.
C26_AdminByPassword ==
    [][ /\ (last = NoStep /\ last'.kind = "http" /\ last'.route = "qr-code"
               /\ last'.status # 401)
              => (last'.token = "valid" /\ IsAdmin(sessions, last'.cookie))
        /\ \A s \in DOMAIN sessions' :
              (IsAdmin(sessions', s) /\ ~IsAdmin(sessions, s))
              => (last'.kind = "http" /\ last'.route = "admin-login"
                    /\ last'.status = 200 /\ last'.password = adminPassword)
        /\ WrongPassword =>
              /\ last'.status = 401
              /\ last'.setCookie = 0
              /\ nextSid' = nextSid
              /\ DOMAIN sessions' \subseteq DOMAIN sessions
              /\ \A s \in DOMAIN sessions :
                    sessions[s].expires > now
                    => (s \in DOMAIN sessions' /\ sessions'[s] = sessions[s]) ]_vars

\* What of C26 the code does keep: the flag is needed for the QR codes and
\* comes only from the right password, and a wrong password changes the data
\* of no session.
AdminKeepsData ==
    [][ /\ (last = NoStep /\ last'.kind = "http" /\ last'.route = "qr-code"
               /\ last'.status # 401)
              => (last'.token = "valid" /\ IsAdmin(sessions, last'.cookie))
        /\ \A s \in DOMAIN sessions' :
              (IsAdmin(sessions', s) /\ ~IsAdmin(sessions, s))
              => (last'.kind = "http" /\ last'.route = "admin-login"
                    /\ last'.status = 200 /\ last'.password = adminPassword)
        /\ WrongPassword =>
              /\ last'.status = 401
              /\ last'.setCookie = 0
              /\ nextSid' = nextSid
              /\ DOMAIN sessions' \subseteq DOMAIN sessions
              /\ \A s \in DOMAIN sessions :
                    sessions[s].expires > now
                    => (s \in DOMAIN sessions' /\ sessions'[s].data = sessions[s].data) ]_vars

----------------------------------------------------------------------------
(* Startup (SpecStart) *)

\* Nothing has been accepted: no request, no upgrade attempt, no session.
NothingAccepted ==
    /\ nextUp = 1 /\ nextSid = 1 /\ last = NoStep
    /\ reqs = << >> /\ serving = << >> /\ DOMAIN conns = {} /\ refused = {}

\* C27: with HTTPS_ENABLED set to 'false' the process, once started, listens
\* with the HTTP server, certificates or not; it exits at startup, with status
\* 1, only when HTTPS is enabled and a certificate file is missing, and then
\* it has accepted nothing.
C27_HttpsCanBeTurnedOff ==
    /\ (boot.HTTPS_ENABLED = "false" /\ boot.server # "starting")
          => (boot.server = "http" /\ boot.exit = << >>)
    /\ boot.server = "exited"
          => (boot.HTTPS_ENABLED # "false" /\ ~boot.certs /\ boot.exit = <<1>>
                /\ NothingAccepted)

\* What the code does instead: HTTPS_ENABLED makes no difference. With the
\* certificate files the process serves HTTPS, without them it exits with
\* status 1 before it accepts anything.
StartsHttpsOrExits ==
    /\ boot.server \in {"starting", "https", "exited"}
    /\ boot.server = "https" => (boot.certs /\ boot.exit = << >>)
    /\ boot.server = "exited" => (~boot.certs /\ boot.exit = <<1>> /\ ~alive /\ NothingAccepted)
    /\ boot.server = "starting" => NothingAccepted

----------------------------------------------------------------------------
(* The admin login and the streaming channel (Spec) *)

\* Session s carries the authenticated flag in store st.
IsAuthenticated(st, s) == s \in DOMAIN st /\ st[s].data.authenticated

\* C28: the admin login turns on the authenticated flag of no session (a
\* record it leaves with the flag set had it set before, or is the session of
\* the request, which had it set when it was loaded), and an upgrade attempt
\* whose session has the authenticated flag unset, admin or not, is answered
\* 401 and opens no Relay Connection.
C28_AdminLoginGrantsNoStreaming ==
    [][ /\ (last = NoStep /\ last'.kind = "http" /\ last'.route = "admin-login")
              => \A s \in DOMAIN sessions' :
                    sessions'[s].data.authenticated
                    => \/ IsAuthenticated(sessions, s)
                       \/ (s = last'.cookie /\ last'.authed)
        /\ (last = NoStep /\ last'.kind = "upgrade" /\ ~last'.authed)
              => (last'.status = 401 /\ conns' = conns /\ last'.up \in refused') ]_vars

\* A client that has passed the admin login, and nothing else, has asked for
\* the streaming channel with its session and has been refused.
C28_Witness ==
    /\ last.kind = "upgrade" /\ last.status = 401
    /\ last.token = "valid" /\ ~last.authed
    /\ IsAdmin(sessions, last.cookie)
    /\ DOMAIN conns = {}

----------------------------------------------------------------------------
(* Authorization is evaluated only at upgrade (SpecOutlive) *)

\* C29: no step that changes the session store, answers a logout or moves the
\* clock changes a Relay Connection, so neither a logout nor the expiry of the
\* session that opened a channel closes it; and a frame received on a Relaying
\* connection whose session is gone is handed to the UDP socket like any other.
C29_ChannelOutlivesSession ==
    [][ /\ (sessions' # sessions \/ revoked' # revoked \/ now' # now)
              => conns' = conns
        /\ \A c \in DOMAIN conns :
              (SessionGone(c) /\ Receives(c))
              => /\ conns[c].state = "Relaying"
                 /\ sink' = Append(sink, Datagram(c, conns'[c].rx[Len(conns'[c].rx)])) ]_vars

\* The client has logged out; its channel is still Relaying and has relayed
\* two frames since.
C29_Witness ==
    /\ DOMAIN conns = {1}
    /\ conns[1].sid \in revoked /\ conns[1].sid \notin DOMAIN sessions
    /\ conns[1].state = "Relaying"
    /\ Len(conns[1].rx) = 2 /\ Len(sink) = 2
    /\ alive

\* The same after the session has run out without a logout.
OutlivesExpiry ==
    /\ DOMAIN conns = {1}
    /\ revoked = {}
    /\ conns[1].state = "Relaying"
    /\ Len(conns[1].rx) = 2 /\ Len(sink) = 2
    /\ alive

----------------------------------------------------------------------------
(* The browser client: an old socket's close event (SpecClient) *)

\* The close event of socket n, which stopStreaming() closed, arrives while the
\* page's ws is another, newer socket.
OldClose(n) ==
    /\ client.sockets[n] = "CLOSING"
    /\ client'.sockets[n] = "CLOSED"
    /\ client.ws # Null /\ client.ws # n

\* C30: the close event of an old socket leaves the session started after it
\* alone: the page's ws is still the newer socket, in the state it was in, and
\* the media stream and the audio context the page holds are as they were.
C30_OldCloseSparesNewSession ==
    [][\A n \in 1..Len(client.sockets) :
          OldClose(n) =>
             /\ client'.ws = client.ws
             /\ client'.sockets[client.ws] = client.sockets[client.ws]
             /\ client'.mediaStream = client.mediaStream
             /\ client'.audioContext = client.audioContext
             /\ client'.streams = client.streams
             /\ client'.contexts = client.contexts]_vars

\* What the close event of a socket does keep: it touches no socket but the
\* one the page holds at that moment, and afterwards the page holds nothing.
CloseStopsWhatThePageHolds ==
    [][\A n \in 1..Len(client.sockets) :
          (client.sockets[n] # "CLOSED" /\ client'.sockets[n] = "CLOSED")
          => /\ client'.ws = Null /\ client'.mediaStream = Null
             /\ client'.audioContext = Null
             /\ \A k \in 1..Len(client.sockets) :
                   (k # n /\ k # client.ws) => client'.sockets[k] = client.sockets[k]]_vars

----------------------------------------------------------------------------
(* The browser client: what is left once streaming has stopped (SpecClient) *)

\* Streaming is stopped: stopStreaming() has left ws null (as it is on the
\* loaded page) and no socket of the page is open or connecting.
Stopped ==
    /\ client.ws = Null
    /\ \A n \in 1..Len(client.sockets) : client.sockets[n] \notin {"CONNECTING", "OPEN"}

\* The page captures: a media stream whose tracks were never stopped, or an
\* audio context that was never closed.
Capturing ==
    \/ \E m \in 1..Len(client.streams) : client.streams[m] = "live"
    \/ \E x \in 1..Len(client.contexts) : client.contexts[x] = "running"

\* C31: while streaming is stopped the microphone stream and the audio context
\* are released, also when the stop or the close of the channel came while
\* startAudio() was still waiting for getUserMedia or for the worklet module:
\* the page never captures the microphone with no open channel.
C31_StoppedReleasesCapture == Stopped => ~Capturing

====
